---- MODULE Spec2Model ----
(***************************************************************************)
(* Model of qrealka/unicode_test: encoding detection (GetFormatType, both  *)
(* the pointer variant and the template variant of main.cpp),              *)
(* transcoding (ConvertFromBytes), the line reader (SafeGetLine and the    *)
(* line loop of main) and EncodeDetector::Detect (EncodingDetect.h).       *)
(* Bytes are 0..255, UTF-16 code units are 0..65535.                       *)
(***************************************************************************)
EXTENDS Integers, Sequences, FiniteSets, TLC

VARIABLES
    variant,    \* "ptr": main.cpp lines 1-232, "tmpl": main.cpp lines 234-386
    buf,        \* the bytes of the file / of the range [begin, end)
    pc,         \* position of the program
    type,       \* UnicodeType returned by GetFormatType
    maxRead,    \* how many bytes from begin the BOM comparisons read
    outcome,    \* how ConvertFromBytes ended
    str16,      \* the UTF-16 code units ConvertFromBytes returned
    hr,         \* Detect: whether DetectInputCodepage SUCCEEDED
    codePages,  \* Detect: the nCodePage of the candidates returned (scores of them)
    detected,   \* Detect: the TextEncoding returned
    codec,      \* line loop: the facet imbued in the wifstream
    pos,        \* line loop: code units already taken from the stream buffer
    failed,     \* line loop: in.bad() || in.fail()
    first,      \* line loop: the loop variable first
    line,       \* line loop: the line SafeGetLine built last
    lines,      \* line loop: the lines printed so far
    reopens     \* line loop: how often the stream was re-opened

vars == <<variant, buf, pc, type, maxRead, outcome, str16, hr, codePages,
          detected, codec, pos, failed, first, line, lines, reopens>>

convVars == <<type, maxRead, outcome, str16>>
detVars == <<hr, codePages, detected>>
lineVars == <<codec, pos, failed, first, line, lines, reopens>>

----------------------------------------------------------------------------
(* Bounds of the model *)

MaxLen == 4
MaxCps == 2
MaxScores == 2
MaxChunks == 3
MaxDetLen == 2

RECURSIVE SeqsUpTo(_, _)
SeqsUpTo(S, n) ==
    IF n = 0 THEN {<<>>}
    ELSE LET shorter == SeqsUpTo(S, n - 1)
         IN shorter \cup {Append(s, x) : s \in {t \in shorter : Len(t) = n - 1}, x \in S}

RECURSIVE Concat(_)
Concat(ss) == IF ss = <<>> THEN <<>> ELSE Head(ss) \o Concat(Tail(ss))

Max(a, b) == IF a >= b THEN a ELSE b

----------------------------------------------------------------------------
(* BOM sniffing *)

\* static const char UTF_8_BOM[] = "\xEF\xBB\xBF": four chars, the last one NUL
UTF_8_BOM == <<239, 187, 191, 0>>
\* static const char UTF_16_LE_BOM[] = "\xFF\xFE": three chars, the last one NUL
UTF_16_LE_BOM == <<255, 254, 0>>
\* static const char UTF_16_BE_BOM[] = "\xFE\xFF"
UTF_16_BE_BOM == <<254, 255, 0>>

\* the number of leading elements on which pat[1..n] and mem agree
RECURSIVE MatchLen(_, _, _)
MatchLen(pat, n, mem) ==
    IF n = 0 \/ mem = <<>> \/ Head(pat) # Head(mem) THEN 0
    ELSE 1 + MatchLen(Tail(pat), n - 1, Tail(mem))

\* std::equal(pat, pat + n, begin), where mem is what lies at begin
StdEqual(pat, n, mem) == MatchLen(pat, n, mem) = n

\* the elements of the second range std::equal reads: it stops at the first mismatch
EqualReads(pat, n, mem) ==
    LET k == MatchLen(pat, n, mem) IN IF k >= n THEN n ELSE k + 1

\* GetFormatType(const char* begin, const char* end), main.cpp:43
GetFormatType(b) ==
    LET size == Len(b)
    IN IF size >= 3 /\ StdEqual(UTF_8_BOM, 3, b) THEN "Utf8_BOM"
       ELSE IF size >= 2 /\ StdEqual(UTF_16_LE_BOM, 2, b) THEN "Utf16_LE_BOM"
       ELSE IF size >= 2 /\ StdEqual(UTF_16_BE_BOM, 2, b) THEN "Utf16_BE_BOM"
       ELSE "Utf8"

\* how far from begin the comparisons of GetFormatType (main.cpp:43) read
GetFormatTypeReads(b) ==
    LET size == Len(b)
        r8 == IF size >= 3 THEN EqualReads(UTF_8_BOM, 3, b) ELSE 0
        m8 == size >= 3 /\ StdEqual(UTF_8_BOM, 3, b)
        rle == IF ~m8 /\ size >= 2 THEN EqualReads(UTF_16_LE_BOM, 2, b) ELSE 0
        mle == size >= 2 /\ StdEqual(UTF_16_LE_BOM, 2, b)
        rbe == IF ~m8 /\ ~mle /\ size >= 2 THEN EqualReads(UTF_16_BE_BOM, 2, b) ELSE 0
    IN Max(r8, Max(rle, rbe))

\* const uint8_t utf8d[], main.cpp:278 (entry i of the array is utf8d[i + 1])
utf8d == <<
   0, 0, 0, 0, 0, 0, 0, 0, 0, 0, 0, 0, 0, 0, 0, 0,
   0, 0, 0, 0, 0, 0, 0, 0, 0, 0, 0, 0, 0, 0, 0, 0,
   0, 0, 0, 0, 0, 0, 0, 0, 0, 0, 0, 0, 0, 0, 0, 0,
   0, 0, 0, 0, 0, 0, 0, 0, 0, 0, 0, 0, 0, 0, 0, 0,
   0, 0, 0, 0, 0, 0, 0, 0, 0, 0, 0, 0, 0, 0, 0, 0,
   0, 0, 0, 0, 0, 0, 0, 0, 0, 0, 0, 0, 0, 0, 0, 0,
   0, 0, 0, 0, 0, 0, 0, 0, 0, 0, 0, 0, 0, 0, 0, 0,
   0, 0, 0, 0, 0, 0, 0, 0, 0, 0, 0, 0, 0, 0, 0, 0,
   1, 1, 1, 1, 1, 1, 1, 1, 1, 1, 1, 1, 1, 1, 1, 1,
   9, 9, 9, 9, 9, 9, 9, 9, 9, 9, 9, 9, 9, 9, 9, 9,
   7, 7, 7, 7, 7, 7, 7, 7, 7, 7, 7, 7, 7, 7, 7, 7,
   7, 7, 7, 7, 7, 7, 7, 7, 7, 7, 7, 7, 7, 7, 7, 7,
   8, 8, 2, 2, 2, 2, 2, 2, 2, 2, 2, 2, 2, 2, 2, 2,
   2, 2, 2, 2, 2, 2, 2, 2, 2, 2, 2, 2, 2, 2, 2, 2,
   10, 3, 3, 3, 3, 3, 3, 3, 3, 3, 3, 3, 3, 4, 3, 3,
   11, 6, 6, 6, 5, 8, 8, 8, 8, 8, 8, 8, 8, 8, 8, 8,
   0, 1, 2, 3, 5, 8, 7, 1, 1, 1, 4, 6, 1, 1, 1, 1,
   1, 1, 1, 1, 1, 1, 1, 1, 1, 1, 1, 1, 1, 1, 1, 1,
   1, 0, 1, 1, 1, 1, 1, 0, 1, 0, 1, 1, 1, 1, 1, 1,
   1, 2, 1, 1, 1, 1, 1, 2, 1, 2, 1, 1, 1, 1, 1, 1,
   1, 1, 1, 1, 1, 1, 1, 2, 1, 1, 1, 1, 1, 1, 1, 1,
   1, 2, 1, 1, 1, 1, 1, 1, 1, 2, 1, 1, 1, 1, 1, 1,
   1, 1, 1, 1, 1, 1, 1, 3, 1, 3, 1, 1, 1, 1, 1, 1,
   1, 3, 1, 1, 1, 1, 1, 3, 1, 3, 1, 1, 1, 1, 1, 1,
   1, 3, 1, 1, 1, 1, 1, 1, 1, 1, 1, 1, 1, 1, 1, 1 >>

\* the lambda handed to std::all_of, main.cpp:313:
\*   type = utf8d[c]; return !utf8d[256 + 16 + type];
AllOfLambda(c) ==
    LET t == utf8d[c + 1] IN utf8d[256 + 16 + t + 1] = 0

\* template GetFormatType(Iterator begin, Iterator end), main.cpp:296.  mem is
\* what lies at begin: the buffer, then whatever follows it in memory; the
\* comparisons run over sizeof(array) elements, the NUL included, with no look
\* at end.
GetFormatTypeT(b, mem) ==
    IF StdEqual(UTF_8_BOM, Len(UTF_8_BOM), mem) THEN "Utf8_BOM"
    ELSE IF StdEqual(UTF_16_LE_BOM, Len(UTF_16_LE_BOM), mem) THEN "Utf16_LE_BOM"
    ELSE IF StdEqual(UTF_16_BE_BOM, Len(UTF_16_BE_BOM), mem) THEN "Utf16_BE_BOM"
    ELSE IF \A i \in 1..Len(b) : AllOfLambda(b[i]) THEN "Utf8"
    ELSE "Mbcs"

\* how far from begin the comparisons of the template GetFormatType read
GetFormatTypeTReads(mem) ==
    LET r8 == EqualReads(UTF_8_BOM, Len(UTF_8_BOM), mem)
        m8 == StdEqual(UTF_8_BOM, Len(UTF_8_BOM), mem)
        rle == IF ~m8 THEN EqualReads(UTF_16_LE_BOM, Len(UTF_16_LE_BOM), mem) ELSE 0
        mle == StdEqual(UTF_16_LE_BOM, Len(UTF_16_LE_BOM), mem)
        rbe == IF ~m8 /\ ~mle THEN EqualReads(UTF_16_BE_BOM, Len(UTF_16_BE_BOM), mem) ELSE 0
    IN Max(r8, Max(rle, rbe))

----------------------------------------------------------------------------
(* The codecs the program instantiates *)

IsCont(c) == c >= 128 /\ c <= 191

\* the length of the UTF-8 sequence a lead byte opens, 0 for a byte that opens none
Utf8SeqLen(c) ==
    IF c <= 127 THEN 1
    ELSE IF c >= 194 /\ c <= 223 THEN 2
    ELSE IF c >= 224 /\ c <= 239 THEN 3
    ELSE IF c >= 240 /\ c <= 244 THEN 4
    ELSE 0

\* whether b[i .. i+n-1] is one well-formed UTF-8 sequence (no overlong form, no
\* surrogate, nothing above U+10FFFF)
Utf8WellFormed(b, i, n) ==
    /\ n >= 1
    /\ i + n - 1 <= Len(b)
    /\ \A k \in 1..(n - 1) : IsCont(b[i + k])
    /\ (b[i] = 224 => b[i + 1] >= 160)
    /\ (b[i] = 237 => b[i + 1] <= 159)
    /\ (b[i] = 240 => b[i + 1] >= 144)
    /\ (b[i] = 244 => b[i + 1] <= 143)

\* the code point of the well-formed sequence b[i .. i+n-1]
Utf8CodePoint(b, i, n) ==
    IF n = 1 THEN b[i]
    ELSE IF n = 2 THEN (b[i] % 32) * 64 + (b[i + 1] % 64)
    ELSE IF n = 3 THEN (b[i] % 16) * 4096 + (b[i + 1] % 64) * 64 + (b[i + 2] % 64)
    ELSE (b[i] % 8) * 262144 + (b[i + 1] % 64) * 4096 + (b[i + 2] % 64) * 64
         + (b[i + 3] % 64)

\* the UTF-16 code units of a code point
Utf16Units(cp) ==
    IF cp < 65536 THEN <<cp>>
    ELSE <<55296 + ((cp - 65536) \div 1024), 56320 + ((cp - 65536) % 1024)>>

\* the bytes from position i on, decoded as UTF-8 into UTF-16 code units; the units
\* before the first malformed or truncated sequence, and whether there was none
RECURSIVE Utf8Loop(_, _, _)
Utf8Loop(b, i, acc) ==
    IF i > Len(b) THEN [ok |-> TRUE, units |-> acc]
    ELSE LET n == Utf8SeqLen(b[i])
         IN IF ~Utf8WellFormed(b, i, n) THEN [ok |-> FALSE, units |-> acc]
            ELSE Utf8Loop(b, i + n, acc \o Utf16Units(Utf8CodePoint(b, i, n)))

\* std::codecvt_utf8_utf16<_, 0x10ffff, mode>::in over the whole of b; with
\* consume_header an initial EF BB BF is skipped
codecvt_utf8_utf16(b, consume_header) ==
    IF consume_header /\ Len(b) >= 3 /\ SubSeq(b, 1, 3) = <<239, 187, 191>>
    THEN Utf8Loop(b, 4, <<>>)
    ELSE Utf8Loop(b, 1, <<>>)

\* std::codecvt<char16_t, char, mbstate_t>::in: the standard's UTF-8 to UTF-16
\* facet, which knows no header
codecvt_char16(b) == Utf8Loop(b, 1, <<>>)

\* the bytes from position i on, taken two at a time as UCS-2 in the byte order le
RECURSIVE Utf16Loop(_, _, _, _)
Utf16Loop(b, i, le, acc) ==
    IF i > Len(b) THEN [ok |-> TRUE, units |-> acc]
    ELSE IF i = Len(b) THEN [ok |-> FALSE, units |-> acc]
    ELSE LET u == IF le THEN b[i] + 256 * b[i + 1] ELSE 256 * b[i] + b[i + 1]
         IN IF u >= 55296 /\ u <= 57343 THEN [ok |-> FALSE, units |-> acc]
            ELSE Utf16Loop(b, i + 2, le, Append(acc, u))

\* std::codecvt_utf16<16-bit element, 0x10ffff, mode>::in over the whole of b: big
\* endian unless, with consume_header, the bytes open with FF FE; the header is
\* skipped
codecvt_utf16(b, consume_header) ==
    LET hasLE == Len(b) >= 2 /\ b[1] = 255 /\ b[2] = 254
        hasBE == Len(b) >= 2 /\ b[1] = 254 /\ b[2] = 255
    IN IF consume_header /\ (hasLE \/ hasBE) THEN Utf16Loop(b, 3, hasLE, <<>>)
       ELSE Utf16Loop(b, 1, FALSE, <<>>)

\* std::wstring_convert<...>::from_bytes(begin, end): the converted string, or
\* std::range_error when the facet reports a failure; a sequence cut short by the
\* end of the range counts as a failure, as it does in the Microsoft library this
\* program (atlbase.h, mlang.h) is built with
from_bytes(r) ==
    IF r.ok THEN [outcome |-> "returned", str |-> r.units]
    ELSE [outcome |-> "range_error", str |-> <<>>]

----------------------------------------------------------------------------
(* Transcoding *)

\* the switch with the Utf8 case left out: a buffer without BOM runs into the
\* converter behind the switch
ConvertSwitchNoUtf8Case(t, b) ==
    IF t = "Mbcs" THEN from_bytes(codecvt_char16(b))
    ELSE IF t = "Utf8_BOM" THEN from_bytes(codecvt_utf8_utf16(b, TRUE))
    ELSE IF t \in {"Utf16_LE_BOM", "Utf16_BE_BOM"} THEN from_bytes(codecvt_utf16(b, TRUE))
    ELSE from_bytes(codecvt_utf16(b, FALSE))

\* the switch of ConvertFromBytes(const char* begin, const char* end), main.cpp:76
ConvertSwitch(t, b) ==
    IF t = "Mbcs" THEN from_bytes(codecvt_char16(b))
    ELSE IF t = "Utf8" THEN from_bytes(codecvt_utf8_utf16(b, FALSE))
    ELSE IF t = "Utf8_BOM" THEN from_bytes(codecvt_utf8_utf16(b, TRUE))
    ELSE IF t \in {"Utf16_LE_BOM", "Utf16_BE_BOM"} THEN from_bytes(codecvt_utf16(b, TRUE))
    ELSE from_bytes(codecvt_utf16(b, FALSE))

\* ConvertFromBytes(const char* begin, const char* end), main.cpp:69
ConvertFromBytes(b) == ConvertSwitch(GetFormatType(b), b)

\* what a call that flows off the end of a value-returning function may hand back
NoReturnStrings == {<<>>, <<65533>>}

\* template ConvertFromBytes(Iterator begin, Iterator end), main.cpp:321: only
\* Mbcs has a case; every other type leaves the function without a return
ConvertFromBytesT(t, b, junk) ==
    IF t = "Mbcs" THEN from_bytes(codecvt_char16(b))
    ELSE [outcome |-> "no_return", str |-> junk]

----------------------------------------------------------------------------
(* Spec: GetFormatType and ConvertFromBytes of both variants, called on every
   buffer of up to MaxLen bytes *)

Bytes == {0, 10, 65, 128, 187, 191, 194, 239, 254, 255}
Buffers == SeqsUpTo(Bytes, MaxLen)

\* what may lie in memory behind the buffer where the template variant reads on
PastBytes == {0, 65, 187, 191, 254, 255}
PastMem(b) ==
    LET need == Max(0, Len(UTF_8_BOM) - Len(b))
    IN {p \in SeqsUpTo(PastBytes, need) : Len(p) = need}

Idle ==
    /\ type = "none" /\ maxRead = 0 /\ outcome = "none" /\ str16 = <<>>
    /\ hr = "none" /\ codePages = <<>> /\ detected = "none"
    /\ codec = "none" /\ pos = 0 /\ failed = FALSE /\ first = TRUE
    /\ line = <<>> /\ lines = <<>> /\ reopens = 0

Init ==
    /\ variant \in {"ptr", "tmpl"}
    /\ buf \in Buffers
    /\ pc = "start"
    /\ Idle

\* a call of GetFormatType(begin, end), main.cpp:43
CallGetFormatType ==
    /\ pc = "start" /\ variant = "ptr"
    /\ pc' = "typed"
    /\ type' = GetFormatType(buf)
    /\ maxRead' = GetFormatTypeReads(buf)
    /\ UNCHANGED <<variant, buf, outcome, str16, detVars, lineVars>>

\* a call of the template GetFormatType(begin, end), main.cpp:296
CallGetFormatTypeT ==
    /\ pc = "start" /\ variant = "tmpl"
    /\ \E past \in PastMem(buf) :
          /\ type' = GetFormatTypeT(buf, buf \o past)
          /\ maxRead' = GetFormatTypeTReads(buf \o past)
    /\ pc' = "typed"
    /\ UNCHANGED <<variant, buf, outcome, str16, detVars, lineVars>>

\* a call of the template GetFormatType(begin, end) in a build whose iterators
\* are checked: the comparison that steps past end stops the program
CallGetFormatTypeTAborts ==
    /\ pc = "start" /\ variant = "tmpl"
    /\ \E past \in PastMem(buf) :
          /\ GetFormatTypeTReads(buf \o past) > Len(buf)
          /\ maxRead' = GetFormatTypeTReads(buf \o past)
    /\ pc' = "aborted"
    /\ UNCHANGED <<variant, buf, type, outcome, str16, detVars, lineVars>>

\* a call of ConvertFromBytes(begin, end), main.cpp:69
CallConvertFromBytes ==
    /\ pc = "start" /\ variant = "ptr"
    /\ pc' = "converted"
    /\ type' = GetFormatType(buf)
    /\ maxRead' = GetFormatTypeReads(buf)
    /\ outcome' = ConvertFromBytes(buf).outcome
    /\ str16' = ConvertFromBytes(buf).str
    /\ UNCHANGED <<variant, buf, detVars, lineVars>>

\* a call of the template ConvertFromBytes(begin, end), main.cpp:321
CallConvertFromBytesT ==
    /\ pc = "start" /\ variant = "tmpl"
    /\ \E past \in PastMem(buf), junk \in NoReturnStrings :
          LET t == GetFormatTypeT(buf, buf \o past)
              r == ConvertFromBytesT(t, buf, junk)
          IN /\ type' = t
             /\ maxRead' = GetFormatTypeTReads(buf \o past)
             /\ outcome' = r.outcome
             /\ str16' = r.str
    /\ pc' = "converted"
    /\ UNCHANGED <<variant, buf, detVars, lineVars>>

Next ==
    \/ CallGetFormatType
    \/ CallGetFormatTypeT
    \/ CallGetFormatTypeTAborts
    \/ CallConvertFromBytes
    \/ CallConvertFromBytesT

Spec == Init /\ [][Next]_vars

----------------------------------------------------------------------------
(* Claims about GetFormatType *)

HasPrefix(b, p) == Len(b) >= Len(p) /\ SubSeq(b, 1, Len(p)) = p
Classified == pc \in {"typed", "converted"}
NoBom(b) ==
    /\ ~HasPrefix(b, <<239, 187, 191>>)
    /\ ~HasPrefix(b, <<255, 254>>)
    /\ ~HasPrefix(b, <<254, 255>>)

\* C1: a buffer that starts with EF BB BF is classified Utf8_BOM, one that starts
\* with FF FE Utf16_LE_BOM and one that starts with FE FF Utf16_BE_BOM, whatever
\* follows the prefix.
C1_BomPrefixDecides ==
    Classified =>
        /\ (HasPrefix(buf, <<239, 187, 191>>) => type = "Utf8_BOM")
        /\ (HasPrefix(buf, <<255, 254>>) => type = "Utf16_LE_BOM")
        /\ (HasPrefix(buf, <<254, 255>>) => type = "Utf16_BE_BOM")

\* C10: the BOM comparisons of GetFormatType read no byte at or past the end of
\* the buffer.
C10_NoReadPastEnd == (Classified \/ pc = "aborted") => maxRead <= Len(buf)

\* the automaton of utf8d run as its table is laid out: state s, byte class t,
\* next state utf8d[256 + 16 * s + t]; 0 accepts, 1 rejects
RECURSIVE Utf8dRun(_, _, _)
Utf8dRun(b, i, s) ==
    IF i > Len(b) \/ s = 1 THEN s
    ELSE Utf8dRun(b, i + 1, utf8d[256 + 16 * s + utf8d[b[i] + 1] + 1])

Utf8dAccepts(b) == Utf8dRun(b, 1, 0) = 0

\* a continuation byte at the head of the buffer or right after an ASCII byte
LoneContinuation(b) ==
    \E i \in 1..Len(b) : IsCont(b[i]) /\ (i = 1 \/ b[i - 1] < 128)

\* C4: a buffer without BOM is classified Utf8 only if the automaton accepts it;
\* one with a lone continuation byte is classified Mbcs, the type ConvertFromBytes
\* transcodes on the legacy multibyte path.
C4_Utf8OnlyIfAccepted ==
    (Classified /\ NoBom(buf)) =>
        /\ (type = "Utf8" => Utf8dAccepts(buf))
        /\ (LoneContinuation(buf) => type = "Mbcs")

PrintableAscii(b) ==
    /\ b # <<>>
    /\ \A i \in 1..Len(b) : b[i] \in {9, 10, 13} \/ (b[i] >= 32 /\ b[i] <= 126)

\* the type the variant gives to the lone continuation byte 0x80
VerdictForInvalid == IF variant = "ptr" THEN GetFormatType(<<128>>) ELSE "Mbcs"

\* C5: a non-empty buffer of tab, LF, CR and printable ASCII bytes has no byte the
\* classifier (the all_of over utf8d of the template variant) rejects, and gets a
\* type other than the one invalid UTF-8 gets.
C5_AsciiNotRejected ==
    (Classified /\ variant = "tmpl" /\ PrintableAscii(buf)) =>
        /\ \A i \in 1..Len(buf) : AllOfLambda(buf[i])
        /\ type # VerdictForInvalid

\* the pointer variant has no classifier: it gives printable ASCII the type it
\* gives every buffer without BOM, invalid UTF-8 included
PtrAsciiSameAsInvalid ==
    (Classified /\ variant = "ptr" /\ PrintableAscii(buf)) => type = VerdictForInvalid

\* the pointer variant alone keeps the contract of C1 and C10
PtrBomPrefixDecides == variant = "ptr" => C1_BomPrefixDecides
PtrNoReadPastEnd == variant = "ptr" => C10_NoReadPastEnd

\* the template variant alone keeps C4
TmplUtf8OnlyIfAccepted == variant = "tmpl" => C4_Utf8OnlyIfAccepted

----------------------------------------------------------------------------
(* SpecRoundTrip: code points encoded as UTF-8 without BOM, then handed to
   ConvertFromBytes (which detects, then transcodes) *)

\* U+0000, A, e-acute, the euro sign, U+FEFF, U+FFFE, an emoji, U+10FFFF
CodePoints == {0, 65, 233, 8364, 65279, 65534, 128512, 1114111}
CpSeqs == SeqsUpTo(CodePoints, MaxCps)

\* the UTF-8 bytes of one code point
Utf8Encode(cp) ==
    IF cp < 128 THEN <<cp>>
    ELSE IF cp < 2048 THEN <<192 + (cp \div 64), 128 + (cp % 64)>>
    ELSE IF cp < 65536
         THEN <<224 + (cp \div 4096), 128 + ((cp \div 64) % 64), 128 + (cp % 64)>>
    ELSE <<240 + (cp \div 262144), 128 + ((cp \div 4096) % 64),
           128 + ((cp \div 64) % 64), 128 + (cp % 64)>>

RECURSIVE Utf8EncodeSeq(_)
Utf8EncodeSeq(c) ==
    IF c = <<>> THEN <<>> ELSE Utf8Encode(Head(c)) \o Utf8EncodeSeq(Tail(c))

\* the code points a sequence of UTF-16 code units stands for; an unpaired
\* surrogate stands for itself
RECURSIVE Utf16ToCps(_)
Utf16ToCps(u) ==
    IF u = <<>> THEN <<>>
    ELSE IF /\ Len(u) >= 2
            /\ u[1] >= 55296 /\ u[1] <= 56319
            /\ u[2] >= 56320 /\ u[2] <= 57343
         THEN <<65536 + (u[1] - 55296) * 1024 + (u[2] - 56320)>>
              \o Utf16ToCps(Tail(Tail(u)))
    ELSE <<Head(u)>> \o Utf16ToCps(Tail(u))

InitRoundTrip ==
    /\ variant = "ptr"
    /\ buf \in {Utf8EncodeSeq(c) : c \in CpSeqs}
    /\ pc = "start"
    /\ Idle

NextRoundTrip == CallConvertFromBytes

SpecRoundTrip == InitRoundTrip /\ [][NextRoundTrip]_vars

\* C2 as claimed: every sequence of code points, encoded as UTF-8 without BOM, comes
\* back from ConvertFromBytes as the UTF-16 code units of the same code points.
C2_RoundTrip ==
    \A c \in CpSeqs :
        (pc = "converted" /\ buf = Utf8EncodeSeq(c)) =>
            (outcome = "returned" /\ Utf16ToCps(str16) = c)

\* C2 as amended: the same for every sequence that does not open with U+FEFF.
C2_RoundTripNoLeadingFEFF ==
    \A c \in CpSeqs :
        (pc = "converted" /\ buf = Utf8EncodeSeq(c) /\ (c = <<>> \/ c[1] # 65279)) =>
            (outcome = "returned" /\ Utf16ToCps(str16) = c)

\* an emoji, then U+FEFF inside the text: three code units, the U+FEFF kept
C2_Witness ==
    /\ pc = "converted"
    /\ buf = Utf8EncodeSeq(<<128512, 65279>>)
    /\ type = "Utf8"
    /\ str16 = <<55357, 56832, 65279>>

----------------------------------------------------------------------------
(* SpecDetect: EncodeDetector::Detect, EncodingDetect.h *)

CP_ACP == 0
CP_ASCII == 20127
CP_UTF8 == 65001
CP_UTF16_LE == 1200
CP_UTF16_BE == 1201
CP_UTF32_LE == 12000
CP_UTF32_BE == 12001
MaxCodePages == 10

\* enum class TextEncoding, EncodingDetect.h:22
TextEncoding == {"Ansi", "UTF8", "UTF16LE", "UTF16BE", "UTF32LE", "UTF32BE"}

Recognized == {CP_ASCII, CP_UTF8, CP_UTF16_LE, CP_UTF16_BE, CP_UTF32_LE, CP_UTF32_BE}

\* the switch over codePages[i].nCodePage, EncodingDetect.h:73
CodePageCase(cp) ==
    IF cp \in {CP_ASCII, CP_UTF8} THEN "UTF8"
    ELSE IF cp = CP_UTF16_LE THEN "UTF16LE"
    ELSE IF cp = CP_UTF16_BE THEN "UTF16BE"
    ELSE IF cp = CP_UTF32_LE THEN "UTF32LE"
    ELSE IF cp = CP_UTF32_BE THEN "UTF32BE"
    ELSE "none"

\* the for loop over the candidates, EncodingDetect.h:71: the first one with a case
\* returns
RECURSIVE FirstCase(_)
FirstCase(pages) ==
    IF pages = <<>> THEN "none"
    ELSE IF CodePageCase(Head(pages)) # "none" THEN CodePageCase(Head(pages))
    ELSE FirstCase(Tail(pages))

\* the else branch, EncodingDetect.h:90: the bytes are converted as UTF-8; an empty
\* result or std::range_error gives Ansi
DetectByConversion(b) ==
    LET r == from_bytes(codecvt_utf8_utf16(b, FALSE))
    IN IF r.outcome = "range_error" THEN "Ansi"
       ELSE IF r.str = <<>> THEN "Ansi"
       ELSE "UTF8"

\* Detect with the conversion tried whenever no candidate has a case, not only
\* when the detector fails
DetectConvertsWithoutCandidate(b, succeeded, pages) ==
    IF succeeded /\ FirstCase(pages) # "none" THEN FirstCase(pages)
    ELSE DetectByConversion(b)

\* EncodeDetector::Detect(begin, end), EncodingDetect.h:58; succeeded is
\* SUCCEEDED(p->DetectInputCodepage(...)), pages the candidates it filled in
Detect(b, succeeded, pages) ==
    IF succeeded
    THEN IF FirstCase(pages) # "none" THEN FirstCase(pages) ELSE "Ansi"
    ELSE DetectByConversion(b)

DetBytes == {65, 128, 195, 169}
DetBuffers == SeqsUpTo(DetBytes, MaxDetLen)
\* the recognized code pages, Windows-1252 and CP_ACP, which have no case
DetCodePages == {CP_ASCII, CP_UTF8, CP_UTF16_LE, CP_UTF16_BE, CP_UTF32_LE,
                 CP_UTF32_BE, 1252, CP_ACP}

InitDetect ==
    /\ variant = "ptr"
    /\ buf \in DetBuffers
    /\ pc = "start"
    /\ Idle

\* a call of Detect on which DetectInputCodepage succeeds
CallDetectSucceeded ==
    /\ pc = "start"
    /\ \E pages \in SeqsUpTo(DetCodePages, MaxScores) :
          /\ Len(pages) <= MaxCodePages
          /\ hr' = "S_OK"
          /\ codePages' = pages
          /\ detected' = Detect(buf, TRUE, pages)
    /\ pc' = "detected"
    /\ UNCHANGED <<variant, buf, convVars, lineVars>>

\* a call of Detect on which DetectInputCodepage fails
CallDetectFailed ==
    /\ pc = "start"
    /\ hr' = "E_FAIL"
    /\ codePages' = <<>>
    /\ detected' = Detect(buf, FALSE, <<>>)
    /\ pc' = "detected"
    /\ UNCHANGED <<variant, buf, convVars, lineVars>>

NextDetect == CallDetectSucceeded \/ CallDetectFailed

SpecDetect == InitDetect /\ [][NextDetect]_vars

NoneRecognized(pages) == \A i \in 1..Len(pages) : pages[i] \notin Recognized

\* C3: when the first recognized candidate is UTF-32LE or UTF-32BE, Detect ends in
\* an error: it returns no TextEncoding at all, UTF32LE and UTF32BE included.
C3_Utf32IsAnError ==
    (pc = "detected" /\ hr = "S_OK" /\ FirstCase(codePages) \in {"UTF32LE", "UTF32BE"})
        => detected \notin TextEncoding

\* C8 as claimed: when the detector succeeds with no recognized candidate, Detect
\* answers as it does when the detector fails: by the UTF-8 validity of the buffer.
C8_NoCandidateFallsBackToValidity ==
    (pc = "detected" /\ hr = "S_OK" /\ NoneRecognized(codePages))
        => detected = DetectByConversion(buf)

\* C8 as amended: when the detector succeeds with no recognized candidate, Detect
\* returns Ansi whatever the buffer holds.
C8_NoCandidateIsAnsi ==
    (pc = "detected" /\ hr = "S_OK" /\ NoneRecognized(codePages))
        => detected = "Ansi"

\* valid UTF-8 (e-acute), the detector's only candidate Windows-1252: Ansi
C8_Witness ==
    /\ pc = "detected" /\ hr = "S_OK"
    /\ buf = <<195, 169>>
    /\ codePages = <<1252>>
    /\ detected = "Ansi"

----------------------------------------------------------------------------
(* SpecLines: main of the pointer variant, main.cpp:144: the file is converted and
   printed, then opened as a wifstream and read line by line *)

\* WEOF where wint_t is the 16-bit unsigned short this code is written for
WEOF == 65535

\* the code units the stream buffer hands out under the imbued facet, up to the
\* end of the file or to the first sequence the facet cannot convert, where
\* sbumpc returns WEOF
StreamUnits(b, cv) ==
    IF cv = "utf8" THEN codecvt_utf8_utf16(b, TRUE).units
    ELSE IF cv = "utf16" THEN codecvt_utf16(b, TRUE).units
    ELSE <<>>

\* buf->sgetc(): the unit at the read position
sgetc(u, p) == IF p < Len(u) THEN u[p + 1] ELSE WEOF

\* the read position after buf->sbumpc()
bump(u, p) == IF p < Len(u) THEN p + 1 ELSE p

\* the for (;;) of SafeGetLine, main.cpp:113, from read position p with ln built
RECURSIVE SafeGetLineLoop(_, _, _)
SafeGetLineLoop(u, p, ln) ==
    LET c == sgetc(u, p)
        q == bump(u, p)
    IN IF c \in {65279, 65534} THEN SafeGetLineLoop(u, q, ln)
       ELSE IF c \in {2560, 10} THEN [line |-> ln, pos |-> q, fail |-> FALSE]
       ELSE IF c \in {3328, 13}
            THEN [line |-> ln,
                  pos |-> IF sgetc(u, q) \in {10, 2560} THEN bump(u, q) ELSE q,
                  fail |-> FALSE]
       ELSE IF c = WEOF THEN [line |-> ln, pos |-> q, fail |-> ln = <<>>]
       ELSE SafeGetLineLoop(u, q, Append(ln, c))

\* SafeGetLine(in, line), main.cpp:107: line.clear(), then the loop
SafeGetLine(u, p) == SafeGetLineLoop(u, p, <<>>)

\* first left as it is by the continue, as with a while loop that clears first
\* at the end of its body
FirstKeptByContinue == TRUE

\* the value of first after the continue of main.cpp:217 has run the increment
\* of the for statement, first = false
FirstAfterContinue == FALSE

\* A, LF, CR, EF BB BF (U+FEFF), E0 A8 80 (U+0A00), a lone continuation byte,
\* the UTF-16LE BOM, A and LF as UTF-16LE
Chunks == {<<65>>, <<10>>, <<13>>, <<239, 187, 191>>, <<224, 168, 128>>, <<128>>,
           <<255, 254>>, <<65, 0>>, <<10, 0>>}

\* EF BB BF 41 42 0D 0A 43 44
ScenarioBytes == <<239, 187, 191, 65, 66, 13, 10, 67, 68>>

LineFiles == {Concat(cs) : cs \in SeqsUpTo(Chunks, MaxChunks)} \cup {ScenarioBytes}

InitLines ==
    /\ variant = "ptr"
    /\ buf \in LineFiles
    /\ pc = "main"
    /\ Idle

\* main.cpp:158: an empty file ends the program with -1
MainEmpty ==
    /\ pc = "main" /\ buf = <<>>
    /\ pc' = "exit"
    /\ UNCHANGED <<variant, buf, convVars, detVars, lineVars>>

\* main.cpp:166: ConvertFromBytes throws std::range_error, which nothing catches
MainConvertThrows ==
    /\ pc = "main" /\ buf # <<>>
    /\ ConvertFromBytes(buf).outcome = "range_error"
    /\ pc' = "terminate"
    /\ type' = GetFormatType(buf)
    /\ maxRead' = GetFormatTypeReads(buf)
    /\ outcome' = "range_error"
    /\ str16' = <<>>
    /\ UNCHANGED <<variant, buf, detVars, lineVars>>

\* main.cpp:166-200: the file is converted and printed, then opened as a wifstream
\* with codecvt_utf8_utf16<wchar_t, 0x10ffff, consume_header> imbued
MainConvertAndOpen ==
    /\ pc = "main" /\ buf # <<>>
    /\ ConvertFromBytes(buf).outcome = "returned"
    /\ pc' = "loop"
    /\ type' = GetFormatType(buf)
    /\ maxRead' = GetFormatTypeReads(buf)
    /\ outcome' = "returned"
    /\ str16' = ConvertFromBytes(buf).str
    /\ codec' = "utf8"
    /\ pos' = 0
    /\ first' = TRUE
    /\ UNCHANGED <<variant, buf, detVars, failed, line, lines, reopens>>

\* main.cpp:207-226: SafeGetLine leaves the stream good; the line is printed
LoopPrint ==
    /\ pc = "loop"
    /\ LET r == SafeGetLine(StreamUnits(buf, codec), pos)
       IN /\ ~(failed \/ r.fail)
          /\ line' = r.line
          /\ pos' = r.pos
          /\ lines' = Append(lines, r.line)
    /\ first' = FALSE
    /\ UNCHANGED <<variant, buf, pc, convVars, detVars, codec, failed, reopens>>

\* main.cpp:207-217: SafeGetLine sets eofbit | failbit | badbit while first holds;
\* the stream is closed, opened again (open clears the state, or sets failbit when
\* the file cannot be opened any more), and codecvt_utf16<wchar_t, 0x10ffff,
\* consume_header> is imbued
LoopReopen ==
    /\ pc = "loop" /\ first
    /\ LET r == SafeGetLine(StreamUnits(buf, codec), pos)
       IN /\ (failed \/ r.fail)
          /\ line' = r.line
    /\ \E opened \in BOOLEAN :
          /\ codec' = IF opened THEN "utf16" ELSE "closed"
          /\ failed' = ~opened
    /\ pos' = 0
    /\ reopens' = reopens + 1
    /\ first' = FirstAfterContinue
    /\ UNCHANGED <<variant, buf, pc, convVars, detVars, lines>>

\* main.cpp:207-219: SafeGetLine sets eofbit | failbit | badbit and first does not
\* hold: break, return 0
LoopBreak ==
    /\ pc = "loop" /\ ~first
    /\ LET r == SafeGetLine(StreamUnits(buf, codec), pos)
       IN /\ (failed \/ r.fail)
          /\ line' = r.line
          /\ pos' = r.pos
    /\ failed' = TRUE
    /\ pc' = "done"
    /\ UNCHANGED <<variant, buf, convVars, detVars, codec, first, lines, reopens>>

NextLines ==
    \/ MainEmpty
    \/ MainConvertThrows
    \/ MainConvertAndOpen
    \/ LoopPrint
    \/ LoopReopen
    \/ LoopBreak

SpecLines == InitLines /\ [][NextLines]_vars

\* the program is one thread that runs on until main returns
SpecLinesFair == SpecLines /\ WF_vars(NextLines)

----------------------------------------------------------------------------
(* Claims about the line reader *)

\* the decoded content split as C6 says: BOM code units dropped, a line ended by
\* LF, by CR, or by CR and the LF right after it, a non-empty tail the last line
RECURSIVE SplitLines(_, _, _)
SplitLines(u, ln, acc) ==
    IF u = <<>> THEN (IF ln # <<>> THEN Append(acc, ln) ELSE acc)
    ELSE IF Head(u) \in {65279, 65534} THEN SplitLines(Tail(u), ln, acc)
    ELSE IF Head(u) = 10 THEN SplitLines(Tail(u), <<>>, Append(acc, ln))
    ELSE IF Head(u) = 13
         THEN IF Len(u) >= 2 /\ u[2] = 10
              THEN SplitLines(Tail(Tail(u)), <<>>, Append(acc, ln))
              ELSE SplitLines(Tail(u), <<>>, Append(acc, ln))
    ELSE SplitLines(Tail(u), Append(ln, Head(u)), acc)

\* C6: once the loop has ended, the lines printed are the decoded content of the
\* stream split at every LF, CR and CR-LF pair, none holds a terminator or a BOM
\* code unit, and EF BB BF 41 42 0D 0A 43 44 gives "AB" then "CD".
C6_LinesAreTheSplit ==
    pc = "done" =>
        /\ lines = SplitLines(StreamUnits(buf, codec), <<>>, <<>>)
        /\ \A i \in 1..Len(lines) : \A j \in 1..Len(lines[i]) :
              lines[i][j] \notin {10, 13, 65279, 65534}
        /\ (buf = ScenarioBytes => lines = << <<65, 66>>, <<67, 68>> >>)

\* the scenario of C6 alone: BOM, "AB", CR LF, "CD" gives the two lines
ScenarioTwoLines ==
    (pc = "done" /\ buf = ScenarioBytes) =>
        (lines = << <<65, 66>>, <<67, 68>> >> /\ reopens = 0)

ReadFails == failed \/ SafeGetLine(StreamUnits(buf, codec), pos).fail

\* what bounds the reads still to come: the code units left in the stream, and,
\* while first holds, one re-open, after which at most Len(buf) units are left
LoopMeasure ==
    (IF first THEN Len(buf) + 1 ELSE 0) + (Len(StreamUnits(buf, codec)) - pos)

Ended == pc \in {"done", "exit", "terminate"}

\* C7: the stream is re-opened at most once, and only by the failure of the very
\* first read; the failure of any later read (the retried one included) ends the
\* loop, after which nothing more is read or printed; every pass through the loop
\* that does not end it uses up one of a bounded number of reads.
C7_OneShotFallback ==
    /\ [](reopens <= 1)
    /\ [][reopens' # reopens =>
             (pc = "loop" /\ first /\ reopens = 0 /\ lines = <<>> /\ ReadFails)]_vars
    /\ [][(pc = "loop" /\ ~first /\ ReadFails) => (pc' = "done" /\ lines' = lines)]_vars
    /\ [](pc = "done" => ~ENABLED NextLines)
    /\ [](LoopMeasure >= 0)
    /\ [][(pc = "loop" /\ pc' = "loop") => LoopMeasure' < LoopMeasure]_vars

\* the loop ends: checked under the weak fairness of SpecLinesFair
LoopEnds == <>Ended

\* FF FE alone: the first read fails under UTF-8, the retried one under UTF-16,
\* and the loop has ended with nothing printed
C7_Witness ==
    /\ pc = "done"
    /\ buf = <<255, 254>>
    /\ reopens = 1
    /\ codec = "utf16"
    /\ lines = <<>>

\* C9: the stream is re-opened only after a transcoding failure: never when the
\* first codec converts the whole file and the first read just finds its end.
C9_ReopenOnlyOnTranscodingFailure ==
    reopens > 0 => ~codecvt_utf8_utf16(buf, TRUE).ok

====
